---- MODULE Spec2Model ----
(***************************************************************************)
(* fxlog.fxlogger: the registry of named loggers, the shared rotating file *)
(* handler and the global level broadcast, as a state machine.  Every      *)
(* public function of src/fxlog/fxlogger.py is one action; the calls it    *)
(* makes into the logging package (getLogger, addHandler, setLevel,        *)
(* callHandlers) are operators computed the way the package computes them. *)
(***************************************************************************)
EXTENDS Integers, Sequences, FiniteSets, TLC

VARIABLES
    _LOG_DIRECTORY,       \* None or a path
    _CONFIGURED_LOGGERS,  \* the names configure_logger has built a logger for
    _SHARED_FILE_HANDLER, \* None or the id of a file handler
    _DEFAULT_LEVEL,       \* None or a level
    _COLOR_SUPPORTED,     \* the result of _supports_color() at import
    loggerDict,           \* logging.Logger.manager.loggerDict: name -> entry
    fileHandlers,         \* every FXTimedRotatingFileHandler ever constructed, by id
    formatterLoggers,     \* FXFormatter._loggers
    dirs,                 \* the paths that exist as directories
    firstDir,             \* history: the path of the first set_log_directory call
    firstRet,             \* history: name -> the instance the first configure_logger returned, in a set
    result,               \* what the last call returned or put out
    disk,                 \* path -> entry name -> what lies directly under the path
    now,                  \* the clock: datetime.now()
    threads,              \* thread -> where it is in the call it runs, and its locals
    loggerClass,          \* logging.getLoggerClass(): the class getLogger makes a new logger of
    logFile               \* what has been written to the day's log file, write by write

vars == <<_LOG_DIRECTORY, _CONFIGURED_LOGGERS, _SHARED_FILE_HANDLER, _DEFAULT_LEVEL,
          _COLOR_SUPPORTED, loggerDict, fileHandlers, formatterLoggers, dirs, firstDir, firstRet, result,
          disk, now, threads, loggerClass, logFile>>

----------------------------------------------------------------------------
(* Levels, fxlogger.py 37-44 *)
CRITICAL == 50
ERROR == 40
WARNING == 30
INFO == 20
DEBUG == 10
NOTSET == 0

\* None, for a path, for a level and for the shared handler
None == "None"
NoLevel == -1
NoHandler == 0

\* The levels of the five leveled methods.
Levels == {DEBUG, INFO, WARNING, ERROR, CRITICAL}

(* Bounds of the model *)
\* the names handed to configure_logger: a parent and its dotted child
Names == {"a", "a.b"}
\* the paths handed to set_log_directory
Paths == {"p1", "p2"}
\* the thresholds handed to setLevel and set_loggers_level
SetLevels == {DEBUG, ERROR}
\* the (enable_color, enable_separator) pairs handed to configure_logger:
\* its defaults
Formats == {<<TRUE, TRUE>>}
\* the handlers one logger may carry
MaxHandlers == 2
\* the threads that call into the module at the same time
Threads == {"t1", "t2"}
\* the calls one thread makes
MaxCalls == 2
\* the last tick of the clock
MaxTime == 2
\* the ticks of the clock in one day
TicksPerDay == 1
\* the largest `days` handed to delete_old_logs
MaxDays == 1
\* the ticks local time is ahead of the epoch's
UtcOffset == 1

\* The name one dot up, "root" above a top-level name.
ParentName(n) == IF n = "a.b" THEN "a" ELSE "root"

\* The root logger's level: logging.RootLogger(WARNING).
RootLevel == WARNING

----------------------------------------------------------------------------
(* The entries of logging's logger table *)
Absent == [kind |-> "absent"]
PlaceHolder == [kind |-> "PlaceHolder"]

NewLogger(cls, id) ==
    [kind |-> "Logger", cls |-> cls, id |-> id, level |-> NOTSET,
     handlers |-> <<>>, propagate |-> TRUE]

IsLogger(d, n) == n \in Names /\ d[n].kind = "Logger"

\* isinstance(existing_logger, FXColorLogger)
IsFXColorLogger(d, n) == IsLogger(d, n) /\ d[n].cls = "FXColorLogger"

\* Manager._fixupParents: a missing ancestor becomes a PlaceHolder.
FixupParents(d, n) ==
    LET p == ParentName(n)
    IN IF p \in Names /\ d[p].kind = "absent"
       THEN [d EXCEPT ![p] = PlaceHolder]
       ELSE d

\* A getLogger that constructs a logger on every call.
GetLoggerAlwaysNew(d, n, cls) ==
    LET id == IF d[n].kind = "Logger" THEN d[n].id + 1 ELSE 1
    IN FixupParents([d EXCEPT ![n] = NewLogger(cls, id)], n)

\* logging.getLogger(name) with `cls` the logger class installed at the call:
\* an existing Logger is returned as it is; a PlaceHolder or a missing name
\* gets a new instance of `cls`.
getLogger(d, n, cls) ==
    IF d[n].kind = "Logger"
    THEN d
    ELSE FixupParents([d EXCEPT ![n] = NewLogger(cls, 1)], n)

\* The nearest ancestor that is a Logger, "root" when there is none
\* (Logger.parent, kept by _fixupParents and _fixupChildren).
RECURSIVE Parent(_, _)
Parent(d, n) ==
    LET p == ParentName(n)
    IN IF p = "root" THEN "root"
       ELSE IF IsLogger(d, p) THEN p
       ELSE Parent(d, p)

\* An effective level that asks the parent first and the logger itself last.
getEffectiveLevelParentFirst(d, n) ==
    LET p == ParentName(n)
    IN IF p \in Names /\ IsLogger(d, p) /\ d[p].level # NOTSET THEN d[p].level
       ELSE IF d[n].level # NOTSET THEN d[n].level
       ELSE RootLevel

\* Logger.getEffectiveLevel: the first level set on the way up to the root.
RECURSIVE getEffectiveLevel(_, _)
getEffectiveLevel(d, n) ==
    IF n = "root" THEN RootLevel
    ELSE IF d[n].level # NOTSET THEN d[n].level
    ELSE getEffectiveLevel(d, Parent(d, n))

\* Logger.isEnabledFor(level), nothing disabled.
isEnabledFor(d, n, level) == level >= getEffectiveLevel(d, n)

----------------------------------------------------------------------------
(* Handlers *)
\* A formatter that keeps enable_color as it was asked for.
FormatterColorAsRequested(enable_color, supported) == enable_color

\* FXFormatter.__init__: self.enable_color, dropped when color is not supported.
FormatterColor(enable_color, supported) == enable_color /\ supported

\* The stream _supports_color asks for isatty().
ProbedStream == "stdout"

\* logging.StreamHandler() without a stream argument writes to sys.stderr.
StreamHandlerStream == "stderr"

\* logging.StreamHandler() with an FXFormatter, level DEBUG.  FXFormatter
\* drops enable_color when the terminal does not support color.
ConsoleHandler(enable_color, enable_separator) ==
    [kind |-> "console", level |-> DEBUG, stream |-> StreamHandlerStream,
     enable_color |-> FormatterColor(enable_color, _COLOR_SUPPORTED),
     enable_separator |-> enable_separator]

FileHandlerRef(id) == [kind |-> "file", id |-> id]

\* A file handler left at Handler's own default level.
NewFileHandlerNoLevel(dir) ==
    [dir |-> dir, level |-> NOTSET, enable_color |-> FALSE, enable_separator |-> FALSE,
     lock |-> None]

\* _create_shared_file_handler: a new handler below the current log
\* directory, formatter without color or separator, level DEBUG; the lock
\* Handler.__init__ creates, held by no thread.
NewFileHandler(dir) ==
    [dir |-> dir, level |-> DEBUG, enable_color |-> FALSE, enable_separator |-> FALSE,
     lock |-> None]

HandlerLevel(fhs, h) == IF h.kind = "file" THEN fhs[h.id].level ELSE h.level

InSeq(s, x) == \E i \in 1..Len(s) : s[i] = x

\* Logger.addHandler: `if not (hdlr in self.handlers): append`.  A console
\* handler is a fresh object each time; only the shared one can be there already.
AddHandler(hs, h) ==
    IF h.kind = "file" /\ InSeq(hs, h) THEN hs ELSE Append(hs, h)

\* A level loop that leaves the handlers out.
SetConsoleLevelsSkipped(hs, level) == hs

\* for handler in logger.handlers: handler.setLevel(level) -- the handlers
\* the logger owns
SetConsoleLevels(hs, level) ==
    [i \in 1..Len(hs) |->
        IF hs[i].kind = "console" THEN [hs[i] EXCEPT !.level = level] ELSE hs[i]]

\* ... and the shared file handlers' part
FileIdsOf(hs) == {hs[i].id : i \in {j \in 1..Len(hs) : hs[j].kind = "file"}}

SetFileLevels(fhs, ids, level) ==
    [i \in 1..Len(fhs) |->
        IF i \in ids THEN [fhs[i] EXCEPT !.level = level] ELSE fhs[i]]

\* A setLevel that also sets the level of the handlers.
LoggerSetLevelMirrored(lg, level) ==
    [lg EXCEPT !.level = level, !.handlers = SetConsoleLevels(@, level)]

\* Logger.setLevel(level): the logger's own level, nothing else.
LoggerSetLevel(lg, level) == [lg EXCEPT !.level = level]

\* A guard that never sees the directory as set.
DirectoryAlreadySetNever(dir) == FALSE

\* `if _LOG_DIRECTORY is not None: return`
DirectoryAlreadySet(dir) == dir # None

\* A check that always asks for a new shared handler.
SharedHandlerMissingAlways(h) == TRUE

\* `if _SHARED_FILE_HANDLER is None`
SharedHandlerMissing(h) == h = NoHandler

\* A configure_logger that leaves propagation as logging made it.
PropagationKept(lg) == lg

\* logger.propagate = False
DisablePropagation(lg) == [lg EXCEPT !.propagate = FALSE]

\* The default-level step of a configure_logger that leaves the logger alone.
ApplyDefaultLevelHandlersOnly(lg, level) ==
    IF level = NoLevel THEN lg
    ELSE [lg EXCEPT !.handlers = SetConsoleLevels(@, level)]

\* `if _DEFAULT_LEVEL is not None`: logger.setLevel and each handler's
\* setLevel (the handlers the logger owns; the shared one is SetFileLevels).
ApplyDefaultLevel(lg, level) ==
    IF level = NoLevel THEN lg
    ELSE [lg EXCEPT !.level = level, !.handlers = SetConsoleLevels(@, level)]

----------------------------------------------------------------------------
(* The file system below the paths *)
\* the regular files an application or an earlier run may leave under a path
FileNames == {"f1", "f2"}
\* the subdirectories under a path: platform.node()'s and another host's
SubdirNames == {"node", "other"}
EntryNames == FileNames \cup SubdirNames

NoEntry == [kind |-> "none"]
\* a regular file, st_mtime
RegularFile(mtime) == [kind |-> "file", mtime |-> mtime]
\* a directory and the files somewhere below it
Directory(inner) == [kind |-> "dir", inner |-> inner]

EmptyDisk == [p \in Paths |-> [e \in EntryNames |-> NoEntry]]

\* An is_dir() that takes every path for a directory.
IsDirAlways(p, ds) == TRUE

\* Path.is_dir()
is_dir(p, ds) == p \in ds

\* Path.is_file()
is_file(entry) == entry.kind = "file"

\* datetime.fromtimestamp(t) and datetime.now(): naive local time
fromtimestamp(t) == t + UtcOffset

datetime_now(t) == t + UtcOffset

\* timedelta(days=days), in ticks
timedelta(days) == days * TicksPerDay

\* A comparison that takes the cutoff itself for old.
NotAfter(file_mod_time, cutoff_date) == file_mod_time <= cutoff_date

\* `file_mod_time < cutoff_date`
Older(file_mod_time, cutoff_date) == file_mod_time < cutoff_date

\* A check that asks only whether the directory is set.
CheckSetOnly(dir, ds) == dir # None

\* _check_log_directory: passes when the log directory is set and exists,
\* raises ValueError otherwise.
_check_log_directory(dir, ds) == dir # None /\ is_dir(dir, ds)

\* `for log_file in _LOG_DIRECTORY.iterdir(): if log_file.is_file()`: the
\* names of the regular files among `entries`.
FilesOf(entries) == {e \in EntryNames : is_file(entries[e])}

\* A removal that takes the whole directory tree.
UnlinkTree(entries, names) == [e \in EntryNames |-> NoEntry]

\* log_file.unlink() for each of `names`
Unlink(entries, names) ==
    [e \in EntryNames |-> IF e \in names THEN NoEntry ELSE entries[e]]

\* _create_shared_file_handler on disk: mkdir(parents=True, exist_ok=True) of
\* <log directory>/<node>/<user>, and the day's log file opened in it.
CreateLogFile(dk, p) ==
    [dk EXCEPT ![p]["node"] =
        IF @.kind = "dir" THEN Directory(@.inner \cup {"log"}) ELSE Directory({"log"})]

----------------------------------------------------------------------------
(* Dispatch of one record: Logger.callHandlers *)
\* The handlers of logger c that take a record of `level`.
SinksAt(d, fhs, c, level) ==
    {[owner |-> c, idx |-> i, kind |-> d[c].handlers[i].kind] :
        i \in {j \in 1..Len(d[c].handlers) :
                 level >= HandlerLevel(fhs, d[c].handlers[j])}}

RECURSIVE callHandlers(_, _, _, _)
callHandlers(d, fhs, c, level) ==
    IF c = "root" THEN {}
    ELSE SinksAt(d, fhs, c, level)
         \cup (IF d[c].propagate THEN callHandlers(d, fhs, Parent(d, c), level) ELSE {})

\* The number of handlers found on the way, whatever their level.
RECURSIVE handlersFound(_, _)
handlersFound(d, c) ==
    IF c = "root" THEN 0
    ELSE Len(d[c].handlers)
         + (IF d[c].propagate THEN handlersFound(d, Parent(d, c)) ELSE 0)

\* logging.lastResort (level WARNING) takes the record when no handler was found.
LastResort == [owner |-> "root", idx |-> 0, kind |-> "lastResort"]

Dispatch(d, fhs, n, level) ==
    IF handlersFound(d, n) = 0
    THEN (IF level >= WARNING THEN {LastResort} ELSE {})
    ELSE callHandlers(d, fhs, n, level)

----------------------------------------------------------------------------
\* What the last call handed back: nothing, the path set_log_directory was
\* given, the logger configure_logger returns, or the handlers a leveled
\* method reached (or the TypeError it raised).
NoResult == [kind |-> "None"]

\* A thread between calls: the calls it has made, whether one of them
\* assigned _LOG_DIRECTORY, and the records it has handed to the file handler.
Idle(calls, assigned, sent) ==
    [pc |-> "idle", arg |-> None, save_to_file |-> FALSE, can_save_to_file |-> FALSE,
     old_logger_class |-> None, level |-> NOTSET, handler |-> NoHandler,
     calls |-> calls, assigned |-> assigned, sent |-> sent]

\* `new`: the name was not yet in _CONFIGURED_LOGGERS when the call began.
\* `warned`: the call printed the warning that file output is not possible.
Returned(n, lg, new, warned) ==
    [kind |-> "logger", name |-> n, id |-> lg.id, cls |-> lg.cls, new |-> new,
     warned |-> warned]

Init ==
    /\ _LOG_DIRECTORY = None
    /\ _CONFIGURED_LOGGERS = {}
    /\ _SHARED_FILE_HANDLER = NoHandler
    /\ _DEFAULT_LEVEL = NoLevel
    /\ _COLOR_SUPPORTED \in BOOLEAN
    /\ loggerDict = [n \in Names |-> Absent]
    /\ fileHandlers = <<>>
    /\ formatterLoggers = {}
    /\ dirs = {}
    /\ firstDir = None
    /\ firstRet = [n \in Names |-> {}]
    /\ result = NoResult
    /\ disk = EmptyDisk
    /\ now = 0
    /\ threads = [t \in Threads |-> Idle(0, FALSE, {})]
    /\ loggerClass = "Logger"
    /\ logFile = <<>>

\* set_log_directory(log_directory)
set_log_directory(log_directory) ==
    /\ IF DirectoryAlreadySet(_LOG_DIRECTORY)
       THEN UNCHANGED <<_LOG_DIRECTORY, _SHARED_FILE_HANDLER, fileHandlers>>
       ELSE /\ _LOG_DIRECTORY' = log_directory
            /\ IF is_dir(log_directory, dirs)
               THEN /\ fileHandlers' = Append(fileHandlers, NewFileHandler(log_directory))
                    /\ _SHARED_FILE_HANDLER' = Len(fileHandlers) + 1
               ELSE UNCHANGED <<_SHARED_FILE_HANDLER, fileHandlers>>
    /\ disk' = IF ~DirectoryAlreadySet(_LOG_DIRECTORY) /\ is_dir(log_directory, dirs)
               THEN CreateLogFile(disk, log_directory)
               ELSE disk
    /\ firstDir' = IF firstDir = None THEN log_directory ELSE firstDir
    /\ result' = [kind |-> "set_log_directory", path |-> log_directory]
    /\ UNCHANGED <<_CONFIGURED_LOGGERS, _DEFAULT_LEVEL, _COLOR_SUPPORTED, loggerDict,
                   formatterLoggers, dirs, firstRet, now, threads, loggerClass, logFile>>

\* configure_logger(logger_name, enable_color, enable_separator, save_to_file)
configure_logger(logger_name, enable_color, enable_separator, save_to_file) ==
    LET can_save_to_file ==
            save_to_file /\ _LOG_DIRECTORY # None /\ is_dir(_LOG_DIRECTORY, dirs)
        \* the warning of 389-393 or 396-400 was printed
        warned == save_to_file /\ ~can_save_to_file
        known == loggerDict[logger_name].kind # "absent"
        \* existing_logger = logging.getLogger(logger_name), default class installed
        d1 == IF known THEN getLogger(loggerDict, logger_name, loggerClass) ELSE loggerDict
    IN IF known /\ IsFXColorLogger(d1, logger_name)
       THEN /\ loggerDict' = d1
            /\ firstRet' = IF firstRet[logger_name] = {}
                           THEN [firstRet EXCEPT ![logger_name] = {d1[logger_name].id}]
                           ELSE firstRet
            /\ result' = Returned(logger_name, d1[logger_name],
                                 logger_name \notin _CONFIGURED_LOGGERS, warned)
            /\ UNCHANGED <<_LOG_DIRECTORY, _CONFIGURED_LOGGERS, _SHARED_FILE_HANDLER,
                           _DEFAULT_LEVEL, _COLOR_SUPPORTED, fileHandlers,
                           formatterLoggers, dirs, firstDir, disk, now, threads, loggerClass, logFile>>
       ELSE LET \* logging.getLogger(logger_name), FXColorLogger installed
                d2 == getLogger(d1, logger_name, "FXColorLogger")
                lg0 == d2[logger_name]
                hs1 == Append(lg0.handlers, ConsoleHandler(enable_color, enable_separator))
                create == can_save_to_file /\ SharedHandlerMissing(_SHARED_FILE_HANDLER)
                fhs1 == IF create
                        THEN Append(fileHandlers, NewFileHandler(_LOG_DIRECTORY))
                        ELSE fileHandlers
                shared1 == IF create THEN Len(fhs1) ELSE _SHARED_FILE_HANDLER
                hs2 == IF can_save_to_file
                       THEN AddHandler(hs1, FileHandlerRef(shared1))
                       ELSE hs1
                lg1 == DisablePropagation([lg0 EXCEPT !.handlers = hs2])
                lg2 == ApplyDefaultLevel(lg1, _DEFAULT_LEVEL)
                fhs2 == IF _DEFAULT_LEVEL # NoLevel
                        THEN SetFileLevels(fhs1, FileIdsOf(hs2), _DEFAULT_LEVEL)
                        ELSE fhs1
            IN /\ Len(hs2) <= MaxHandlers
               /\ loggerDict' = [d2 EXCEPT ![logger_name] = lg2]
               /\ fileHandlers' = fhs2
               /\ _SHARED_FILE_HANDLER' = shared1
               /\ _CONFIGURED_LOGGERS' = _CONFIGURED_LOGGERS \cup {logger_name}
               /\ firstRet' = IF firstRet[logger_name] = {}
                              THEN [firstRet EXCEPT ![logger_name] = {lg0.id}]
                              ELSE firstRet
               /\ result' = Returned(logger_name, lg0,
                                    logger_name \notin _CONFIGURED_LOGGERS, warned)
               /\ disk' = IF create THEN CreateLogFile(disk, _LOG_DIRECTORY) ELSE disk
               /\ UNCHANGED <<_LOG_DIRECTORY, _DEFAULT_LEVEL, _COLOR_SUPPORTED,
                              formatterLoggers, dirs, firstDir, now, threads, loggerClass, logFile>>

\* The names set_loggers_level reaches: the configured ones, then the ones
\* FXFormatter has seen a record of.
LevelTargets == _CONFIGURED_LOGGERS \cup (formatterLoggers \ _CONFIGURED_LOGGERS)

\* set_loggers_level(level)
set_loggers_level(level) ==
    LET d1 == [n \in Names |->
                 IF n \in LevelTargets
                 THEN [loggerDict[n] EXCEPT !.level = level,
                                            !.handlers = SetConsoleLevels(@, level)]
                 ELSE loggerDict[n]]
        ids == UNION {FileIdsOf(loggerDict[n].handlers) : n \in LevelTargets}
    IN /\ _DEFAULT_LEVEL' = level
       /\ loggerDict' = d1
       /\ fileHandlers' = SetFileLevels(fileHandlers, ids, level)
       /\ result' = NoResult
       /\ UNCHANGED <<_LOG_DIRECTORY, _CONFIGURED_LOGGERS, _SHARED_FILE_HANDLER,
                      _COLOR_SUPPORTED, formatterLoggers, dirs, firstDir, firstRet,
                      disk, now, threads, loggerClass, logFile>>

\* logger.setLevel(level) on a logger configure_logger returned
setLevel(n, level) ==
    /\ n \in _CONFIGURED_LOGGERS
    /\ loggerDict' = [loggerDict EXCEPT ![n] = LoggerSetLevel(@, level)]
    /\ result' = NoResult
    /\ UNCHANGED <<_LOG_DIRECTORY, _CONFIGURED_LOGGERS, _SHARED_FILE_HANDLER,
                   _DEFAULT_LEVEL, _COLOR_SUPPORTED, fileHandlers, formatterLoggers,
                   dirs, firstDir, firstRet, disk, now, threads, loggerClass, logFile>>

\* logger.debug/info/warning/error/critical(msg, color=...): the leveled
\* methods of FXColorLogger, and of logging.Logger for a logger of that class,
\* which takes no color argument.
Emit(n, level, color) ==
    /\ IsLogger(loggerDict, n)
    /\ LET enabled == isEnabledFor(loggerDict, n, level)
           raised == enabled /\ color /\ loggerDict[n].cls # "FXColorLogger"
           sinks == IF enabled /\ ~raised
                    THEN Dispatch(loggerDict, fileHandlers, n, level)
                    ELSE {}
       IN /\ formatterLoggers' =
                IF \E s \in sinks : s.kind # "lastResort"
                THEN formatterLoggers \cup {n}
                ELSE formatterLoggers
          /\ result' = [kind |-> "emit", raised |-> raised, sinks |-> sinks]
    /\ UNCHANGED <<_LOG_DIRECTORY, _CONFIGURED_LOGGERS, _SHARED_FILE_HANDLER,
                   _DEFAULT_LEVEL, _COLOR_SUPPORTED, loggerDict, fileHandlers,
                   dirs, firstDir, firstRet, disk, now, threads, loggerClass, logFile>>

\* Other code of the process asks logging for the name first:
\* logging.getLogger(n) with the default class.
ExternalGetLogger(n) ==
    /\ ~IsLogger(loggerDict, n)
    /\ loggerDict' = getLogger(loggerDict, n, loggerClass)
    /\ result' = NoResult
    /\ UNCHANGED <<_LOG_DIRECTORY, _CONFIGURED_LOGGERS, _SHARED_FILE_HANDLER,
                   _DEFAULT_LEVEL, _COLOR_SUPPORTED, fileHandlers, formatterLoggers,
                   dirs, firstDir, firstRet, disk, now, threads, loggerClass, logFile>>

\* The application creates the directory: log_dir.mkdir(parents=True, exist_ok=True)
Mkdir(p) ==
    /\ p \notin dirs
    /\ dirs' = dirs \cup {p}
    /\ result' = NoResult
    /\ UNCHANGED <<_LOG_DIRECTORY, _CONFIGURED_LOGGERS, _SHARED_FILE_HANDLER,
                   _DEFAULT_LEVEL, _COLOR_SUPPORTED, loggerDict, fileHandlers,
                   formatterLoggers, firstDir, firstRet, disk, now, threads, loggerClass, logFile>>

----------------------------------------------------------------------------
(* Housekeeping of the log directory, and what else happens to it *)
ValueError == [kind |-> "ValueError"]

\* delete_old_logs(days)
delete_old_logs(days) ==
    /\ IF _check_log_directory(_LOG_DIRECTORY, dirs)
       THEN LET cutoff_date == datetime_now(now) - timedelta(days)
                names == {e \in FilesOf(disk[_LOG_DIRECTORY]) :
                             Older(fromtimestamp(disk[_LOG_DIRECTORY][e].mtime),
                                   cutoff_date)}
            IN /\ disk' = [disk EXCEPT ![_LOG_DIRECTORY] = Unlink(@, names)]
               /\ result' = [kind |-> "delete_old_logs", days |-> days, unlinked |-> names]
       ELSE /\ result' = ValueError
            /\ UNCHANGED disk
    /\ UNCHANGED <<_LOG_DIRECTORY, _CONFIGURED_LOGGERS, _SHARED_FILE_HANDLER,
                   _DEFAULT_LEVEL, _COLOR_SUPPORTED, loggerDict, fileHandlers,
                   formatterLoggers, dirs, firstDir, firstRet, now, threads, loggerClass, logFile>>

\* clear_logs()
clear_logs ==
    /\ IF _check_log_directory(_LOG_DIRECTORY, dirs)
       THEN LET names == FilesOf(disk[_LOG_DIRECTORY])
            IN /\ disk' = [disk EXCEPT ![_LOG_DIRECTORY] = Unlink(@, names)]
               /\ result' = [kind |-> "clear_logs", unlinked |-> names]
       ELSE /\ result' = ValueError
            /\ UNCHANGED disk
    /\ UNCHANGED <<_LOG_DIRECTORY, _CONFIGURED_LOGGERS, _SHARED_FILE_HANDLER,
                   _DEFAULT_LEVEL, _COLOR_SUPPORTED, loggerDict, fileHandlers,
                   formatterLoggers, dirs, firstDir, firstRet, now, threads, loggerClass, logFile>>

\* Something writes a regular file below an existing path; its st_mtime is
\* the time of the write.
WriteFile(p, f) ==
    /\ p \in dirs
    /\ disk[p][f] # RegularFile(now)
    /\ disk' = [disk EXCEPT ![p][f] = RegularFile(now)]
    /\ result' = NoResult
    /\ UNCHANGED <<_LOG_DIRECTORY, _CONFIGURED_LOGGERS, _SHARED_FILE_HANDLER,
                   _DEFAULT_LEVEL, _COLOR_SUPPORTED, loggerDict, fileHandlers,
                   formatterLoggers, dirs, firstDir, firstRet, now, threads, loggerClass, logFile>>

\* Another host has left its subdirectory, with a log file, below an existing path.
MakeSubdir(p) ==
    /\ p \in dirs
    /\ disk[p]["other"] = NoEntry
    /\ disk' = [disk EXCEPT ![p]["other"] = Directory({"log"})]
    /\ result' = NoResult
    /\ UNCHANGED <<_LOG_DIRECTORY, _CONFIGURED_LOGGERS, _SHARED_FILE_HANDLER,
                   _DEFAULT_LEVEL, _COLOR_SUPPORTED, loggerDict, fileHandlers,
                   formatterLoggers, dirs, firstDir, firstRet, now, threads, loggerClass, logFile>>

\* FXTimedRotatingFileHandler at the first record after midnight:
\* TimedRotatingFileHandler.doRollover renames the log file to
\* rotation_filename(...), next to it, and opens a new log file.
doRollover ==
    /\ _SHARED_FILE_HANDLER # NoHandler
    /\ now >= TicksPerDay
    /\ LET p == fileHandlers[_SHARED_FILE_HANDLER].dir
       IN /\ disk[p]["node"].kind = "dir"
          /\ "rotated" \notin disk[p]["node"].inner
          /\ disk' = [disk EXCEPT ![p]["node"] = Directory(@.inner \cup {"log", "rotated"})]
    /\ result' = NoResult
    /\ UNCHANGED <<_LOG_DIRECTORY, _CONFIGURED_LOGGERS, _SHARED_FILE_HANDLER,
                   _DEFAULT_LEVEL, _COLOR_SUPPORTED, loggerDict, fileHandlers,
                   formatterLoggers, dirs, firstDir, firstRet, now, threads, loggerClass, logFile>>

\* Time passes.
Tick ==
    /\ now < MaxTime
    /\ now' = now + 1
    /\ result' = NoResult
    /\ UNCHANGED <<_LOG_DIRECTORY, _CONFIGURED_LOGGERS, _SHARED_FILE_HANDLER,
                   _DEFAULT_LEVEL, _COLOR_SUPPORTED, loggerDict, fileHandlers,
                   formatterLoggers, dirs, firstDir, firstRet, disk, threads, loggerClass, logFile>>

NextFiles ==
    \/ \E p \in Paths : set_log_directory(p)
    \/ \E p \in Paths : Mkdir(p)
    \/ \E p \in Paths, f \in FileNames : WriteFile(p, f)
    \/ \E p \in Paths : MakeSubdir(p)
    \/ Tick
    \/ doRollover
    \/ \E days \in 0..MaxDays : delete_old_logs(days)
    \/ clear_logs

\* The housekeeping calls among set_log_directory and the life of the
\* directories, no logger configured.
SpecFiles == Init /\ [][NextFiles]_vars

----------------------------------------------------------------------------
(* Colors and FXFormatter.format *)
\* the names the module exports for colors and styles
ColorNames == {"BLACK", "BLUE", "CYAN", "GREEN", "MAGENTA", "RED", "WHITE",
               "YELLOW", "BRIGHT", "DIM", "RESET_ALL"}

\* colorama.Fore.* and colorama.Style.*: the escape sequence of a name
Ansi(c) == "ESC[" \o c

AnsiCodes == {Ansi(c) : c \in ColorNames}

\* BLACK ... RESET_ALL of the module: colorama's sequence when color is
\* supported, the empty string when it is not.
Palette(supported) == [c \in ColorNames |-> IF supported THEN Ansi(c) ELSE ""]

\* self.level_colors.get(record.levelno, colorama.Fore.WHITE)
level_colors(levelno) ==
    CASE levelno = DEBUG -> Ansi("CYAN")
      [] levelno = INFO -> Ansi("GREEN")
      [] levelno = WARNING -> Ansi("YELLOW")
      [] levelno = ERROR -> Ansi("RED")
      [] levelno = CRITICAL -> Ansi("MAGENTA")
      [] OTHER -> Ansi("WHITE")

\* A piece of a formatted line: what format() itself puts in, or the message.
Piece(text) == [part |-> "format", text |-> text]
Message(text) == [part |-> "message", text |-> text]

\* FXFormatter.format(record) of a formatter with self.enable_color and
\* self.enable_separator, for a record of level `levelno` with the attribute
\* color (the empty string when there is none) and the message `message`.
format(self_enable_color, self_enable_separator, levelno, color, message) ==
    IF self_enable_color
    THEN LET separator == IF self_enable_separator
                          THEN <<Piece(Ansi("DIM")), Piece("-"), Piece(Ansi("RESET_ALL")),
                                 Piece("\n")>>
                          ELSE <<>>
             color_start == IF color # "" /\ self_enable_color THEN color ELSE ""
             color_end == IF color # "" /\ self_enable_color THEN Ansi("RESET_ALL") ELSE ""
         IN separator
            \o <<Piece(Ansi("DIM")), Piece("asctime"), Piece(Ansi("RESET_ALL")),
                 Piece(level_colors(levelno)), Piece("levelname"), Piece(Ansi("RESET_ALL")),
                 Piece(Ansi("DIM")), Piece(Ansi("RESET_ALL")),
                 Piece(Ansi("DIM")), Piece("module_function:lineno"),
                 Piece(Ansi("RESET_ALL")), Piece("\n"),
                 Piece(color_start), Message(message), Piece(color_end)>>
    ELSE LET separator == IF self_enable_separator
                          THEN <<Piece("-"), Piece("\n")>>
                          ELSE <<>>
         IN separator
            \o <<Piece("asctime"), Piece("levelname"), Piece("module_function:lineno"),
                 Piece("\n"), Message(message)>>

\* the messages handed to the formatter: plain, and with a sequence of its own
Messages == {"text", Ansi("BRIGHT") \o "text"}

\* the color arguments of a leveled call: none, the module's RED, colorama's own
ColorArgs(supported) == {"", Palette(supported)["RED"], Ansi("RED")}

\* FXFormatter(enable_color=..., enable_separator=...).format(record) for a
\* record of logger n.
Format(n, enable_color, enable_separator, levelno, color, message) ==
    /\ formatterLoggers' = formatterLoggers \cup {n}
    /\ result' = [kind |-> "format", enable_color |-> enable_color,
                  enable_separator |-> enable_separator, color |-> color,
                  line |-> format(FormatterColor(enable_color, _COLOR_SUPPORTED),
                                  enable_separator, levelno, color, message)]
    /\ UNCHANGED <<_LOG_DIRECTORY, _CONFIGURED_LOGGERS, _SHARED_FILE_HANDLER,
                   _DEFAULT_LEVEL, _COLOR_SUPPORTED, loggerDict, fileHandlers,
                   dirs, firstDir, firstRet, disk, now, threads, loggerClass, logFile>>

NextFormat ==
    \E n \in Names, enable_color \in BOOLEAN, enable_separator \in BOOLEAN,
       levelno \in Levels \cup {NOTSET}, color \in ColorArgs(_COLOR_SUPPORTED),
       message \in Messages :
        Format(n, enable_color, enable_separator, levelno, color, message)

\* Formatters of every configuration formatting records.
SpecFormat == Init /\ [][NextFormat]_vars

----------------------------------------------------------------------------
(* Dispatch when the write of a handler fails *)
\* the handlers whose stream may fail to take a write
SinkKinds == {"console", "file"}

\* Logger.callHandlers in the order it calls them: the handlers of c that
\* take the level, then those of the loggers it propagates to.
RECURSIVE SinkSeq(_, _, _, _)
SinkSeq(d, fhs, c, level) ==
    IF c = "root" THEN <<>>
    ELSE LET hs == d[c].handlers
             own == [i \in 1..Len(hs) |-> [owner |-> c, idx |-> i, kind |-> hs[i].kind]]
             Takes(s) == level >= HandlerLevel(fhs, hs[s.idx])
         IN SelectSeq(own, Takes)
            \o (IF d[c].propagate THEN SinkSeq(d, fhs, Parent(d, c), level) ELSE <<>>)

\* A dispatch that the first failing write ends, the exception going up to
\* the caller.
HandleUntilFailure(seq, broken) ==
    LET bad == {i \in 1..Len(seq) : seq[i].kind \in broken}
        stop == IF bad = {} THEN Len(seq) + 1
                ELSE CHOOSE i \in bad : \A j \in bad : i <= j
    IN [delivered |-> {seq[i] : i \in 1..(stop - 1)},
        errors |-> {seq[i] : i \in bad \cap 1..stop},
        raised |-> bad # {}]

\* Handler.handle for each handler in turn.  StreamHandler.emit and
\* BaseRotatingHandler.emit catch the exception of a failed write and hand
\* it to Handler.handleError, which reports it and returns.
HandleEach(seq, broken) ==
    [delivered |-> {seq[i] : i \in {j \in 1..Len(seq) : seq[j].kind \notin broken}},
     errors |-> {seq[i] : i \in {j \in 1..Len(seq) : seq[j].kind \in broken}},
     raised |-> FALSE]

\* A leveled call on logger n while the writes of the handlers of the kinds
\* in `broken` fail.
EmitFailing(n, level, broken) ==
    /\ IsLogger(loggerDict, n)
    /\ handlersFound(loggerDict, n) > 0
    /\ LET seq == IF isEnabledFor(loggerDict, n, level)
                  THEN SinkSeq(loggerDict, fileHandlers, n, level)
                  ELSE <<>>
           out == HandleEach(seq, broken)
       IN /\ formatterLoggers' = IF seq # <<>>
                                 THEN formatterLoggers \cup {n}
                                 ELSE formatterLoggers
          /\ result' = [kind |-> "emit", raised |-> out.raised,
                        sinks |-> out.delivered, errors |-> out.errors]
    /\ UNCHANGED <<_LOG_DIRECTORY, _CONFIGURED_LOGGERS, _SHARED_FILE_HANDLER,
                   _DEFAULT_LEVEL, _COLOR_SUPPORTED, loggerDict, fileHandlers,
                   dirs, firstDir, firstRet, disk, now, threads, loggerClass, logFile>>

NextFailures ==
    \/ \E p \in Paths : set_log_directory(p)
    \/ \E p \in Paths : Mkdir(p)
    \/ \E n \in Names, fmt \in Formats, f \in BOOLEAN :
           configure_logger(n, fmt[1], fmt[2], f)
    \/ \E l \in SetLevels : set_loggers_level(l)
    \/ \E n \in Names, l \in Levels, broken \in SUBSET SinkKinds :
           EmitFailing(n, l, broken)

\* Configuration and leveled calls while writes fail.
SpecFailures == Init /\ [][NextFailures]_vars

----------------------------------------------------------------------------
(* The calls, run by threads.  The module takes no lock: between two         *)
(* statements of a call another thread may run.  logging.getLogger and       *)
(* Logger.addHandler take logging's own lock and are single steps.           *)

\* The thread t moves to `pc`.
Goto(t, pc) == [threads EXCEPT ![t].pc = pc]

\* The call of thread t returns.
Return(t) == [threads EXCEPT ![t] = Idle(@.calls, @.assigned, @.sent)]

\* What the steps of the threads leave alone.
ThreadFrame == <<_COLOR_SUPPORTED, formatterLoggers, firstDir, firstRet, result, now, logFile>>

\* A thread calls set_log_directory(log_directory).
T_set_log_directory(t, log_directory) ==
    /\ threads[t].pc = "idle"
    /\ threads[t].calls < MaxCalls
    /\ threads' = [threads EXCEPT ![t] = [@ EXCEPT !.pc = "sld_check", !.arg = log_directory,
                                                   !.calls = @ + 1]]
    /\ UNCHANGED <<_LOG_DIRECTORY, _CONFIGURED_LOGGERS, _SHARED_FILE_HANDLER, _DEFAULT_LEVEL,
                   loggerDict, fileHandlers, dirs, disk, loggerClass, ThreadFrame>>

\* 65-67: `if _LOG_DIRECTORY is not None: return`
T_sld_check(t) ==
    /\ threads[t].pc = "sld_check"
    /\ threads' = IF DirectoryAlreadySet(_LOG_DIRECTORY) THEN Return(t) ELSE Goto(t, "sld_assign")
    /\ UNCHANGED <<_LOG_DIRECTORY, _CONFIGURED_LOGGERS, _SHARED_FILE_HANDLER, _DEFAULT_LEVEL,
                   loggerDict, fileHandlers, dirs, disk, loggerClass, ThreadFrame>>

\* 69: `_LOG_DIRECTORY = Path(log_directory)`
T_sld_assign(t) ==
    /\ threads[t].pc = "sld_assign"
    /\ _LOG_DIRECTORY' = threads[t].arg
    /\ threads' = [threads EXCEPT ![t] = [@ EXCEPT !.pc = "sld_is_dir", !.assigned = TRUE]]
    /\ UNCHANGED <<_CONFIGURED_LOGGERS, _SHARED_FILE_HANDLER, _DEFAULT_LEVEL,
                   loggerDict, fileHandlers, dirs, disk, loggerClass, ThreadFrame>>

\* 72: `if _LOG_DIRECTORY.is_dir()`
T_sld_is_dir(t) ==
    /\ threads[t].pc = "sld_is_dir"
    /\ threads' = IF is_dir(_LOG_DIRECTORY, dirs) THEN Goto(t, "sld_create") ELSE Return(t)
    /\ UNCHANGED <<_LOG_DIRECTORY, _CONFIGURED_LOGGERS, _SHARED_FILE_HANDLER, _DEFAULT_LEVEL,
                   loggerDict, fileHandlers, dirs, disk, loggerClass, ThreadFrame>>

\* 73: `_SHARED_FILE_HANDLER = _create_shared_file_handler()`
T_sld_create(t) ==
    /\ threads[t].pc = "sld_create"
    /\ fileHandlers' = Append(fileHandlers, NewFileHandler(_LOG_DIRECTORY))
    /\ _SHARED_FILE_HANDLER' = Len(fileHandlers) + 1
    /\ disk' = CreateLogFile(disk, _LOG_DIRECTORY)
    /\ threads' = Return(t)
    /\ UNCHANGED <<_LOG_DIRECTORY, _CONFIGURED_LOGGERS, _DEFAULT_LEVEL,
                   loggerDict, dirs, loggerClass, ThreadFrame>>

\* A thread calls configure_logger(logger_name, save_to_file=save_to_file).
T_configure_logger(t, logger_name, save_to_file) ==
    /\ threads[t].pc = "idle"
    /\ threads[t].calls < MaxCalls
    /\ threads' = [threads EXCEPT ![t] = [@ EXCEPT !.pc = "cl_check", !.arg = logger_name,
                                                   !.save_to_file = save_to_file,
                                                   !.calls = @ + 1]]
    /\ UNCHANGED <<_LOG_DIRECTORY, _CONFIGURED_LOGGERS, _SHARED_FILE_HANDLER, _DEFAULT_LEVEL,
                   loggerDict, fileHandlers, dirs, disk, loggerClass, ThreadFrame>>

\* 386-410: can_save_to_file, and the return of a logger that is an
\* FXColorLogger already.
T_cl_check(t) ==
    /\ threads[t].pc = "cl_check"
    /\ LET n == threads[t].arg
           can_save_to_file ==
               threads[t].save_to_file /\ _LOG_DIRECTORY # None /\ is_dir(_LOG_DIRECTORY, dirs)
           known == loggerDict[n].kind # "absent"
           d1 == IF known THEN getLogger(loggerDict, n, loggerClass) ELSE loggerDict
       IN /\ loggerDict' = d1
          /\ threads' = IF known /\ IsFXColorLogger(d1, n)
                        THEN Return(t)
                        ELSE [threads EXCEPT ![t] = [@ EXCEPT !.pc = "cl_old_class",
                                                     !.can_save_to_file = can_save_to_file]]
    /\ UNCHANGED <<_LOG_DIRECTORY, _CONFIGURED_LOGGERS, _SHARED_FILE_HANDLER, _DEFAULT_LEVEL,
                   fileHandlers, dirs, disk, loggerClass, ThreadFrame>>

\* 413: `old_logger_class = logging.getLoggerClass()`
T_cl_old_class(t) ==
    /\ threads[t].pc = "cl_old_class"
    /\ threads' = [threads EXCEPT ![t] = [@ EXCEPT !.pc = "cl_set_class",
                                                   !.old_logger_class = loggerClass]]
    /\ UNCHANGED <<_LOG_DIRECTORY, _CONFIGURED_LOGGERS, _SHARED_FILE_HANDLER, _DEFAULT_LEVEL,
                   loggerDict, fileHandlers, dirs, disk, loggerClass, ThreadFrame>>

\* 414: `logging.setLoggerClass(FXColorLogger)`
T_cl_set_class(t) ==
    /\ threads[t].pc = "cl_set_class"
    /\ loggerClass' = "FXColorLogger"
    /\ threads' = Goto(t, "cl_get")
    /\ UNCHANGED <<_LOG_DIRECTORY, _CONFIGURED_LOGGERS, _SHARED_FILE_HANDLER, _DEFAULT_LEVEL,
                   loggerDict, fileHandlers, dirs, disk, ThreadFrame>>

\* 418-422: `logger = logging.getLogger(logger_name)`, of the class that is
\* installed at that moment
T_cl_get(t) ==
    /\ threads[t].pc = "cl_get"
    /\ loggerDict' = getLogger(loggerDict, threads[t].arg, loggerClass)
    /\ threads' = Goto(t, "cl_restore")
    /\ UNCHANGED <<_LOG_DIRECTORY, _CONFIGURED_LOGGERS, _SHARED_FILE_HANDLER, _DEFAULT_LEVEL,
                   fileHandlers, dirs, disk, loggerClass, ThreadFrame>>

\* 423-425: `finally: logging.setLoggerClass(old_logger_class)`
T_cl_restore(t) ==
    /\ threads[t].pc = "cl_restore"
    /\ loggerClass' = threads[t].old_logger_class
    /\ threads' = Goto(t, "cl_console")
    /\ UNCHANGED <<_LOG_DIRECTORY, _CONFIGURED_LOGGERS, _SHARED_FILE_HANDLER, _DEFAULT_LEVEL,
                   loggerDict, fileHandlers, dirs, disk, ThreadFrame>>

\* 428-432: the console handler
T_cl_console(t) ==
    /\ threads[t].pc = "cl_console"
    /\ LET n == threads[t].arg
       IN /\ Len(loggerDict[n].handlers) < MaxHandlers
          /\ loggerDict' = [loggerDict EXCEPT
                               ![n].handlers = Append(@, ConsoleHandler(TRUE, TRUE))]
    /\ threads' = Goto(t, IF threads[t].can_save_to_file THEN "cl_shared_check" ELSE "cl_finish")
    /\ UNCHANGED <<_LOG_DIRECTORY, _CONFIGURED_LOGGERS, _SHARED_FILE_HANDLER, _DEFAULT_LEVEL,
                   fileHandlers, dirs, disk, loggerClass, ThreadFrame>>

\* 439: `if _SHARED_FILE_HANDLER is None`
T_cl_shared_check(t) ==
    /\ threads[t].pc = "cl_shared_check"
    /\ threads' = Goto(t, IF SharedHandlerMissing(_SHARED_FILE_HANDLER)
                          THEN "cl_shared_create" ELSE "cl_shared_add")
    /\ UNCHANGED <<_LOG_DIRECTORY, _CONFIGURED_LOGGERS, _SHARED_FILE_HANDLER, _DEFAULT_LEVEL,
                   loggerDict, fileHandlers, dirs, disk, loggerClass, ThreadFrame>>

\* 440: `_SHARED_FILE_HANDLER = _create_shared_file_handler()`
T_cl_shared_create(t) ==
    /\ threads[t].pc = "cl_shared_create"
    /\ fileHandlers' = Append(fileHandlers, NewFileHandler(_LOG_DIRECTORY))
    /\ _SHARED_FILE_HANDLER' = Len(fileHandlers) + 1
    /\ disk' = CreateLogFile(disk, _LOG_DIRECTORY)
    /\ threads' = Goto(t, "cl_shared_add")
    /\ UNCHANGED <<_LOG_DIRECTORY, _CONFIGURED_LOGGERS, _DEFAULT_LEVEL,
                   loggerDict, dirs, loggerClass, ThreadFrame>>

\* 443: `logger.addHandler(_SHARED_FILE_HANDLER)`
T_cl_shared_add(t) ==
    /\ threads[t].pc = "cl_shared_add"
    /\ LET n == threads[t].arg
           hs == AddHandler(loggerDict[n].handlers, FileHandlerRef(_SHARED_FILE_HANDLER))
       IN /\ Len(hs) <= MaxHandlers + 1   \* the console handlers and the shared one
          /\ loggerDict' = [loggerDict EXCEPT ![n].handlers = hs]
    /\ threads' = Goto(t, "cl_finish")
    /\ UNCHANGED <<_LOG_DIRECTORY, _CONFIGURED_LOGGERS, _SHARED_FILE_HANDLER, _DEFAULT_LEVEL,
                   fileHandlers, dirs, disk, loggerClass, ThreadFrame>>

\* 445-457: propagate, _CONFIGURED_LOGGERS, the default level, return
T_cl_finish(t) ==
    /\ threads[t].pc = "cl_finish"
    /\ LET n == threads[t].arg
           lg == ApplyDefaultLevel(DisablePropagation(loggerDict[n]), _DEFAULT_LEVEL)
       IN /\ loggerDict' = [loggerDict EXCEPT ![n] = lg]
          /\ fileHandlers' = IF _DEFAULT_LEVEL # NoLevel
                             THEN SetFileLevels(fileHandlers, FileIdsOf(lg.handlers),
                                                _DEFAULT_LEVEL)
                             ELSE fileHandlers
          /\ _CONFIGURED_LOGGERS' = _CONFIGURED_LOGGERS \cup {n}
    /\ threads' = Return(t)
    /\ UNCHANGED <<_LOG_DIRECTORY, _SHARED_FILE_HANDLER, _DEFAULT_LEVEL,
                   dirs, disk, loggerClass, ThreadFrame>>

\* The directory is made while the threads run.
T_Mkdir(p) ==
    /\ p \notin dirs
    /\ dirs' = dirs \cup {p}
    /\ UNCHANGED <<_LOG_DIRECTORY, _CONFIGURED_LOGGERS, _SHARED_FILE_HANDLER, _DEFAULT_LEVEL,
                   loggerDict, fileHandlers, disk, threads, loggerClass, ThreadFrame>>

NextThreads ==
    \/ \E p \in Paths : T_Mkdir(p)
    \/ \E t \in Threads, p \in Paths : T_set_log_directory(t, p)
    \/ \E t \in Threads : T_sld_check(t)
    \/ \E t \in Threads : T_sld_assign(t)
    \/ \E t \in Threads : T_sld_is_dir(t)
    \/ \E t \in Threads : T_sld_create(t)
    \/ \E t \in Threads, n \in Names, f \in BOOLEAN : T_configure_logger(t, n, f)
    \/ \E t \in Threads : T_cl_check(t)
    \/ \E t \in Threads : T_cl_old_class(t)
    \/ \E t \in Threads : T_cl_set_class(t)
    \/ \E t \in Threads : T_cl_get(t)
    \/ \E t \in Threads : T_cl_restore(t)
    \/ \E t \in Threads : T_cl_console(t)
    \/ \E t \in Threads : T_cl_shared_check(t)
    \/ \E t \in Threads : T_cl_shared_create(t)
    \/ \E t \in Threads : T_cl_shared_add(t)
    \/ \E t \in Threads : T_cl_finish(t)

\* Two threads calling set_log_directory and configure_logger at once.
SpecThreads == Init /\ [][NextThreads]_vars

----------------------------------------------------------------------------
(* Records on their way into the day's log file.  logging runs a handler's   *)
(* emit between Handler.acquire and Handler.release; the text goes through   *)
(* the TextIOWrapper the handler opened, whose write is not atomic for       *)
(* threads: the text of one record reaches the file in parts.                *)
----------------------------------------------------------------------------
\* the parts the text of one record is written in
RecordParts == <<"head", "tail">>

\* Everything a thread inside a leveled method leaves alone.
WriteFrame == <<_LOG_DIRECTORY, _CONFIGURED_LOGGERS, _SHARED_FILE_HANDLER, _DEFAULT_LEVEL,
                _COLOR_SUPPORTED, loggerDict, dirs, firstDir, firstRet, result, disk, now,
                loggerClass>>

\* The file handlers Logger.callHandlers hands a record of `level` on logger n to.
FileSinks(d, fhs, n, level) ==
    {d[s.owner].handlers[s.idx].id : s \in {x \in Dispatch(d, fhs, n, level) : x.kind = "file"}}

\* A lock that is handed to whoever asks.
AcquireAlways(fh, t) == TRUE

\* Handler.acquire on the handler's threading.RLock: free, or held by t itself.
Acquire(fh, t) == fh.lock \in {None, t}

\* A thread calls a leveled method of logger n: FXColorLogger._log builds the
\* record when the level is enabled, and Logger.handle finds the handlers.
T_log(t, n, level) ==
    /\ threads[t].pc = "idle"
    /\ threads[t].calls < MaxCalls
    /\ IsLogger(loggerDict, n)
    /\ LET ids == IF isEnabledFor(loggerDict, n, level)
                  THEN FileSinks(loggerDict, fileHandlers, n, level)
                  ELSE {}
           k == threads[t].calls + 1
       IN threads' = [threads EXCEPT ![t] =
                         IF ids = {}
                         THEN [@ EXCEPT !.calls = k]
                         ELSE [@ EXCEPT !.calls = k, !.pc = "handle_acquire", !.arg = n,
                                        !.handler = CHOOSE h \in ids : TRUE,
                                        !.sent = @ \cup {<<t, k>>}]]
    /\ UNCHANGED <<WriteFrame, fileHandlers, formatterLoggers, logFile>>

\* Handler.handle: `self.acquire()`
T_handle_acquire(t) ==
    /\ threads[t].pc = "handle_acquire"
    /\ Acquire(fileHandlers[threads[t].handler], t)
    /\ fileHandlers' = [fileHandlers EXCEPT ![threads[t].handler].lock = t]
    /\ threads' = Goto(t, "emit_head")
    /\ UNCHANGED <<WriteFrame, formatterLoggers, logFile>>

\* StreamHandler.emit: `msg = self.format(record)` and the first part of
\* `stream.write(msg + self.terminator)`
T_emit_head(t) ==
    /\ threads[t].pc = "emit_head"
    /\ formatterLoggers' = formatterLoggers \cup {threads[t].arg}
    /\ logFile' = Append(logFile, [rec |-> <<t, threads[t].calls>>, logger |-> threads[t].arg,
                                   part |-> RecordParts[1]])
    /\ threads' = Goto(t, "emit_tail")
    /\ UNCHANGED <<WriteFrame, fileHandlers>>

\* ... and the rest of the text, terminator included
T_emit_tail(t) ==
    /\ threads[t].pc = "emit_tail"
    /\ logFile' = Append(logFile, [rec |-> <<t, threads[t].calls>>, logger |-> threads[t].arg,
                                   part |-> RecordParts[2]])
    /\ threads' = Goto(t, "handle_release")
    /\ UNCHANGED <<WriteFrame, fileHandlers, formatterLoggers>>

\* Handler.handle: `finally: self.release()`, and the leveled method returns
T_handle_release(t) ==
    /\ threads[t].pc = "handle_release"
    /\ fileHandlers' = [fileHandlers EXCEPT ![threads[t].handler].lock = None]
    /\ threads' = Return(t)
    /\ UNCHANGED <<WriteFrame, formatterLoggers, logFile>>

\* No thread has called a leveled method yet: the loggers are being configured.
Configuring == \A t \in Threads : threads[t].calls = 0

NextWrites ==
    \/ Configuring /\ \E p \in Paths : Mkdir(p)
    \/ Configuring /\ \E p \in Paths : set_log_directory(p)
    \/ Configuring /\ \E n \in Names, f \in BOOLEAN : configure_logger(n, TRUE, TRUE, f)
    \/ Configuring /\ \E l \in SetLevels : set_loggers_level(l)
    \/ \E t \in Threads, n \in Names, l \in Levels : T_log(t, n, l)
    \/ \E t \in Threads : T_handle_acquire(t)
    \/ \E t \in Threads : T_emit_head(t)
    \/ \E t \in Threads : T_emit_tail(t)
    \/ \E t \in Threads : T_handle_release(t)

\* Loggers are configured, then two threads call their leveled methods at once.
SpecWrites == Init /\ [][NextWrites]_vars

----------------------------------------------------------------------------
(* The call site of a record.  A call stack is a sequence of frames, the     *)
(* outermost first; Logger.findCaller walks it from its own frame outwards.  *)
----------------------------------------------------------------------------
\* the functions of the application that call a leveled method
AppFuncs == {"main", "run"}
\* the application frames on the stack when the leveled method is called
MaxDepth == 3

\* The methods an application logs with: the five leveled methods of
\* FXColorLogger, and Logger.exception, which calls self.error.
Methods == {"debug", "info", "warning", "error", "critical", "exception"}

MethodLevel(method) ==
    CASE method = "debug" -> DEBUG
      [] method = "info" -> INFO
      [] method = "warning" -> WARNING
      [] method = "error" -> ERROR
      [] method = "critical" -> CRITICAL
      [] method = "exception" -> ERROR

\* The leveled method of FXColorLogger a call of `method` runs.
Wrapper(method) == IF method = "exception" THEN "error" ELSE method

\* `stacklevel=2` in debug/info/warning/error/critical
WrapperStacklevel == 2

Frame(file, func, depth) == [file |-> file, func |-> func, depth |-> depth]

\* The stacks of the application: 1..MaxDepth frames of its functions.
AppStacks == UNION {[1..k -> AppFuncs] : k \in 1..MaxDepth}

\* The stack at the call of findCaller, for an application stack `app`.
CallStack(app, method) ==
    LET k == Len(app)
        entry == IF method = "exception"
                 THEN <<Frame("logging", "exception", k + 1)>>
                 ELSE <<>>
        e == Len(entry)
    IN [i \in 1..k |-> Frame("app", app[i], i)]
       \o entry
       \o <<Frame("fxlogger", Wrapper(method), k + e + 1),
            Frame("fxlogger", "_log", k + e + 2),
            Frame("logging", "findCaller", k + e + 3)>>

\* logging._is_internal_frame: a frame of logging/__init__.py (or of the
\* import machinery, which is not on these stacks)
_is_internal_frame(frame) == frame.file = "logging"

\* The frame at or outside i that is not logging's own, 0 when there is none.
RECURSIVE SkipSrcfile(_, _)
SkipSrcfile(stack, i) ==
    IF i = 0 THEN 0
    ELSE IF stack[i].file = "logging" THEN SkipSrcfile(stack, i - 1)
    ELSE i

\* Logger.findCaller as it was before Python 3.11: start at the frame that
\* called the caller of _log, go stacklevel - 1 frames out, whatever they
\* are, and back to the start when the stack is not that deep.
findCallerByDepth(stack, stacklevel) ==
    LET orig_f == Len(stack) - 3
        f == IF orig_f - (stacklevel - 1) >= 1 THEN orig_f - (stacklevel - 1) ELSE orig_f
    IN SkipSrcfile(stack, f)

\* The loop of Logger.findCaller: from frame i outwards, one frame at a
\* time, counting the frames that are not internal.
RECURSIVE WalkBack(_, _, _)
WalkBack(stack, i, stacklevel) ==
    IF stacklevel <= 0 \/ i = 1 THEN i
    ELSE WalkBack(stack, i - 1,
                  IF _is_internal_frame(stack[i - 1]) THEN stacklevel ELSE stacklevel - 1)

\* Logger.findCaller(stack_info, stacklevel): the place on the stack of the
\* frame the record is attributed to, starting at findCaller's own frame.
findCaller(stack, stacklevel) == WalkBack(stack, Len(stack), stacklevel)

\* The application calls logger.<method>(msg) on the FXColorLogger n with
\* the frames `app` on the stack: the wrapper, FXColorLogger._log with
\* findCaller(stack_info, stacklevel + 1), makeRecord and handle.
LeveledCall(n, method, app) ==
    /\ IsFXColorLogger(loggerDict, n)
    /\ LET level == MethodLevel(method)
           enabled == isEnabledFor(loggerDict, n, level)
           stack == CallStack(app, method)
           sinks == IF enabled THEN Dispatch(loggerDict, fileHandlers, n, level) ELSE {}
       IN /\ formatterLoggers' =
                IF \E s \in sinks : s.kind # "lastResort"
                THEN formatterLoggers \cup {n}
                ELSE formatterLoggers
          /\ result' = IF enabled
                       THEN [kind |-> "record", name |-> n, method |-> method,
                             stack |-> stack,
                             caller |-> findCaller(stack, WrapperStacklevel + 1)]
                       ELSE NoResult
    /\ UNCHANGED <<_LOG_DIRECTORY, _CONFIGURED_LOGGERS, _SHARED_FILE_HANDLER,
                   _DEFAULT_LEVEL, _COLOR_SUPPORTED, loggerDict, fileHandlers,
                   dirs, firstDir, firstRet, disk, now, threads, loggerClass, logFile>>

NextCaller ==
    \/ \E n \in Names : configure_logger(n, TRUE, TRUE, FALSE)
    \/ \E n \in Names, l \in SetLevels : setLevel(n, l)
    \/ \E n \in Names, m \in Methods, app \in AppStacks : LeveledCall(n, m, app)

\* Loggers are configured, their levels set, and the application logs from
\* stacks of several depths.
SpecCaller == Init /\ [][NextCaller]_vars

----------------------------------------------------------------------------
Next ==
    \/ \E p \in Paths : set_log_directory(p)
    \/ \E n \in Names, fmt \in Formats, f \in BOOLEAN :
           configure_logger(n, fmt[1], fmt[2], f)
    \/ \E l \in SetLevels : set_loggers_level(l)
    \/ \E n \in Names, l \in SetLevels : setLevel(n, l)
    \/ \E n \in Names, l \in Levels, c \in BOOLEAN : Emit(n, l, c)
    \/ \E n \in Names : ExternalGetLogger(n)
    \/ \E p \in Paths : Mkdir(p)

Spec == Init /\ [][Next]_vars

----------------------------------------------------------------------------
(* Properties *)

\* The levels of the handlers attached to logger n, the shared one included.
SinkLevels(d, fhs, n) ==
    {HandlerLevel(fhs, d[n].handlers[i]) : i \in 1..Len(d[n].handlers)}

\* Whether the record of an emit reached a console handler of logger n.
ConsoleOut(r, n) == \E s \in r.sinks : s.owner = n /\ s.kind = "console"

\* Whether some logger has the shared file handler among its handlers.
SharedAttached ==
    \E n \in Names :
        IsLogger(loggerDict, n)
        /\ _SHARED_FILE_HANDLER \in FileIdsOf(loggerDict[n].handlers)

\* C1: a configure_logger call for a name returns the instance the first
\* configure_logger call for that name returned.
C1_SameInstance ==
    result.kind = "logger" => result.id \in firstRet[result.name]

\* A repeat call has just returned, after a setLevel in between.
C1_Witness ==
    /\ result.kind = "logger"
    /\ ~result.new
    /\ loggerDict[result.name].level = ERROR
    /\ _DEFAULT_LEVEL = NoLevel

\* C2: every logger configure_logger returns is an FXColorLogger.
C2_ReturnsFXColorLogger ==
    result.kind = "logger" => result.cls = "FXColorLogger"

\* C3: a configure_logger call for a name already configured leaves the
\* logger as it was: its handlers, its level, each handler's level and
\* formatter flags, and its propagate flag.
C3_RepeatLeavesLoggerUnchanged ==
    [][\A n \in Names, fmt \in Formats, f \in BOOLEAN :
          (n \in _CONFIGURED_LOGGERS /\ configure_logger(n, fmt[1], fmt[2], f))
          => (loggerDict'[n] = loggerDict[n] /\ fileHandlers' = fileHandlers)]_vars

\* C4: on an FXColorLogger whose level was set to T, a leveled call at level
\* L reaches the logger's console handler if and only if L >= T.
C4_EmitIffAtLeastThreshold ==
    [][\A n \in Names, l \in Levels, c \in BOOLEAN :
          (/\ n \in _CONFIGURED_LOGGERS
           /\ IsFXColorLogger(loggerDict, n)
           /\ loggerDict[n].level # NOTSET
           /\ Emit(n, l, c))
          => (ConsoleOut(result', n) <=> l >= loggerDict[n].level)]_vars

\* C5: right after set_loggers_level(level), every configured logger and
\* every handler attached to it has that level, and so has _DEFAULT_LEVEL.
C5_GlobalLevelReachesAll ==
    [][\A l \in SetLevels :
          set_loggers_level(l)
          => (/\ _DEFAULT_LEVEL' = l
              /\ \A n \in _CONFIGURED_LOGGERS :
                    /\ loggerDict'[n].level = l
                    /\ SinkLevels(loggerDict', fileHandlers', n) \subseteq {l})]_vars

\* Both names configured, one with the shared handler, all at the global level.
C5_Witness ==
    /\ _DEFAULT_LEVEL = ERROR
    /\ result = NoResult
    /\ _CONFIGURED_LOGGERS = Names
    /\ SharedAttached
    /\ \A n \in Names :
          /\ loggerDict[n].level = ERROR
          /\ SinkLevels(loggerDict, fileHandlers, n) = {ERROR}

\* C6: a logger configure_logger newly builds gets the global level, and so
\* does each of its handlers, when one was set; its level is left alone when
\* none was.
C6_NewLoggerGetsDefaultLevel ==
    [][\A n \in Names, fmt \in Formats, f \in BOOLEAN :
          (n \notin _CONFIGURED_LOGGERS /\ configure_logger(n, fmt[1], fmt[2], f))
          => IF _DEFAULT_LEVEL # NoLevel
             THEN /\ loggerDict'[n].level = _DEFAULT_LEVEL
                  /\ SinkLevels(loggerDict', fileHandlers', n) = {_DEFAULT_LEVEL}
             ELSE loggerDict'[n].level =
                      IF IsLogger(loggerDict, n) THEN loggerDict[n].level ELSE NOTSET]_vars

\* A new logger with the shared handler has just been returned at the global level.
C6_Witness ==
    /\ result.kind = "logger"
    /\ result.new
    /\ _DEFAULT_LEVEL = ERROR
    /\ loggerDict[result.name].level = ERROR
    /\ Len(loggerDict[result.name].handlers) = 2
    /\ SinkLevels(loggerDict, fileHandlers, result.name) = {ERROR}

C8_SecondSetLogDirectoryIsNoOp ==
    [][/\ \A p \in Paths :
             (_LOG_DIRECTORY # None /\ set_log_directory(p))
             => UNCHANGED <<_LOG_DIRECTORY, _SHARED_FILE_HANDLER, fileHandlers,
                            loggerDict, dirs>>
       /\ firstDir' # None
          => /\ _LOG_DIRECTORY' = firstDir'
             /\ \A i \in 1..Len(fileHandlers') : fileHandlers'[i].dir = firstDir']_vars

\* A later call with an existing p2 has just returned; p1, set first, did
\* not exist then and is still the directory, with no shared handler.
C8_Witness ==
    /\ result = [kind |-> "set_log_directory", path |-> "p2"]
    /\ _LOG_DIRECTORY = "p1"
    /\ "p2" \in dirs
    /\ _SHARED_FILE_HANDLER = NoHandler

\* C9: the shared file handler is constructed at most once, is never
\* replaced, and every logger with a file handler holds that instance.
C9_OneSharedHandler ==
    [][/\ Len(fileHandlers') <= 1
       /\ _SHARED_FILE_HANDLER # NoHandler
          => _SHARED_FILE_HANDLER' = _SHARED_FILE_HANDLER
       /\ \A n \in Names :
             IsLogger(loggerDict', n)
             => FileIdsOf(loggerDict'[n].handlers) \subseteq {_SHARED_FILE_HANDLER'}]_vars

\* Both loggers hold the shared handler, after a set_loggers_level.
C9_Witness ==
    /\ \A n \in Names :
          n \in _CONFIGURED_LOGGERS
          /\ FileIdsOf(loggerDict[n].handlers) = {_SHARED_FILE_HANDLER}
    /\ _SHARED_FILE_HANDLER # NoHandler
    /\ _DEFAULT_LEVEL # NoLevel

\* C10 as stated: whenever the shared file handler exists, its level is DEBUG.
C10_SharedHandlerAlwaysDebug ==
    \A i \in 1..Len(fileHandlers) : fileHandlers[i].level = DEBUG

\* C10, amended: the shared file handler's level is DEBUG while no global
\* level has been set or no logger has it attached, and the global level
\* from then on.
C10_SharedHandlerLevel ==
    _SHARED_FILE_HANDLER # NoHandler
    => fileHandlers[_SHARED_FILE_HANDLER].level =
           IF _DEFAULT_LEVEL = NoLevel \/ ~SharedAttached
           THEN DEBUG
           ELSE _DEFAULT_LEVEL

\* The shared handler, attached, after set_loggers_level(ERROR) and a
\* setLevel(DEBUG) on its logger.
C10_Witness ==
    /\ _SHARED_FILE_HANDLER # NoHandler
    /\ SharedAttached
    /\ _DEFAULT_LEVEL = ERROR
    /\ fileHandlers[_SHARED_FILE_HANDLER].level = ERROR
    /\ \E n \in _CONFIGURED_LOGGERS :
          /\ _SHARED_FILE_HANDLER \in FileIdsOf(loggerDict[n].handlers)
          /\ loggerDict[n].level = DEBUG

\* C11: configure_logger with save_to_file=True for a new name, while no log
\* directory is set or the directory does not exist, prints the warning and
\* returns the logger with a console handler and no file handler; it makes
\* no shared file handler and nothing on disk.
C11_FallsBackToConsole ==
    [][\A n \in Names, fmt \in Formats :
          (/\ n \notin _CONFIGURED_LOGGERS
           /\ _LOG_DIRECTORY \notin dirs
           /\ configure_logger(n, fmt[1], fmt[2], TRUE))
          => (/\ result'.kind = "logger"
              /\ result'.name = n
              /\ result'.warned
              /\ \E i \in 1..Len(loggerDict'[n].handlers) :
                     loggerDict'[n].handlers[i].kind = "console"
              /\ FileIdsOf(loggerDict'[n].handlers) = {}
              /\ UNCHANGED <<_SHARED_FILE_HANDLER, fileHandlers, dirs, disk>>)]_vars

\* A new logger has just been returned with the warning, the directory set
\* to a path that does not exist.
C11_Witness ==
    /\ result.kind = "logger"
    /\ result.new
    /\ result.warned
    /\ _LOG_DIRECTORY = "p1"
    /\ "p1" \notin dirs
    /\ Len(loggerDict[result.name].handlers) = 1
    /\ fileHandlers = <<>>

\* C12 as stated: the shared file handler is constructed, and a directory or
\* file made on disk, by no call but a configure_logger with save_to_file=True.
C12_NothingOnDiskUnlessRequested ==
    [][(Len(fileHandlers') > Len(fileHandlers) \/ disk' # disk)
       => \E n \in Names, fmt \in Formats : configure_logger(n, fmt[1], fmt[2], TRUE)]_vars

\* C12, amended: the shared file handler is constructed, and a directory or
\* file made on disk, by a configure_logger with save_to_file=True or by the
\* first set_log_directory when its path exists as a directory, and by no
\* other call.
C12_OnDiskOnlyWhenRequestedOrEager ==
    [][(Len(fileHandlers') > Len(fileHandlers) \/ disk' # disk)
       => \/ \E n \in Names, fmt \in Formats : configure_logger(n, fmt[1], fmt[2], TRUE)
          \/ \E p \in Paths :
                /\ _LOG_DIRECTORY = None
                /\ p \in dirs
                /\ set_log_directory(p)]_vars

\* The first set_log_directory, on an existing directory, has made the shared
\* handler and its file while no logger is configured.
C12_Witness ==
    /\ result.kind = "set_log_directory"
    /\ _CONFIGURED_LOGGERS = {}
    /\ _SHARED_FILE_HANDLER # NoHandler
    /\ disk[_LOG_DIRECTORY]["node"] = Directory({"log"})

\* C16: the logger configure_logger returns does not propagate, and a record
\* of a configured logger reaches the handlers of that logger only.
C16_NoPropagation ==
    /\ result.kind = "logger" => ~loggerDict[result.name].propagate
    /\ \A n \in _CONFIGURED_LOGGERS, l \in Levels :
          \A s \in Dispatch(loggerDict, fileHandlers, n, l) : s.owner = n

\* A record of "a.b" has reached the console handler of "a.b" alone, while
\* "a" is configured with a console handler that takes every level.
C16_Witness ==
    /\ result.kind = "emit"
    /\ result.sinks = {[owner |-> "a.b", idx |-> 1, kind |-> "console"]}
    /\ _CONFIGURED_LOGGERS = Names
    /\ loggerDict["a"].handlers[1].level = DEBUG

\* C17: every console handler of a configured logger writes to standard output.
C17_ConsoleWritesToStdout ==
    \A n \in _CONFIGURED_LOGGERS :
        \A i \in 1..Len(loggerDict[n].handlers) :
            loggerDict[n].handlers[i].kind = "console"
            => loggerDict[n].handlers[i].stream = "stdout"

\* C13: delete_old_logs and clear_logs, called while no log directory is set
\* or the directory does not exist, raise ValueError and leave the module's
\* state and the disk as they were.
C13_HousekeepingNeedsDirectory ==
    [][(/\ _LOG_DIRECTORY \notin dirs
        /\ (clear_logs \/ \E days \in 0..MaxDays : delete_old_logs(days)))
       => (/\ result' = ValueError
           /\ UNCHANGED <<_LOG_DIRECTORY, _SHARED_FILE_HANDLER, fileHandlers,
                          _CONFIGURED_LOGGERS, _DEFAULT_LEVEL, dirs, disk>>)]_vars

\* ValueError has been raised with the directory set to a path that does not
\* exist, while files lie below the other path.
C13_Witness ==
    /\ result = ValueError
    /\ _LOG_DIRECTORY = "p1"
    /\ dirs = {"p2"}
    /\ \A f \in FileNames : is_file(disk["p2"][f])

\* C14: clear_logs, the directory set and existing, removes every regular
\* file directly below it and leaves every subdirectory, what is inside it,
\* and every other path as they were.
C14_ClearRemovesExactlyTheFiles ==
    [][(_LOG_DIRECTORY \in dirs /\ clear_logs)
       => (/\ \A e \in EntryNames :
                 disk'[_LOG_DIRECTORY][e] =
                     IF disk[_LOG_DIRECTORY][e].kind = "file"
                     THEN NoEntry
                     ELSE disk[_LOG_DIRECTORY][e]
           /\ \A p \in Paths \ {_LOG_DIRECTORY} : disk'[p] = disk[p]
           /\ result'.unlinked =
                 {e \in EntryNames : disk[_LOG_DIRECTORY][e].kind = "file"}
           /\ dirs' = dirs)]_vars

\* clear_logs has removed two files and left two subdirectories with the
\* log files in them.
C14_Witness ==
    /\ result = [kind |-> "clear_logs", unlinked |-> FileNames]
    /\ \A d \in SubdirNames : disk[_LOG_DIRECTORY][d] = Directory({"log"})
    /\ \A f \in FileNames : disk[_LOG_DIRECTORY][f] = NoEntry

\* C15: delete_old_logs(days), the directory set and existing, removes the
\* regular files directly below it whose modification time is strictly
\* before now - days, and nothing else.
C15_DeletesStrictlyOlder ==
    [][\A days \in 0..MaxDays :
          (_LOG_DIRECTORY \in dirs /\ delete_old_logs(days))
          => (/\ \A e \in EntryNames :
                    disk'[_LOG_DIRECTORY][e] =
                        IF /\ disk[_LOG_DIRECTORY][e].kind = "file"
                           /\ disk[_LOG_DIRECTORY][e].mtime < now - days * TicksPerDay
                        THEN NoEntry
                        ELSE disk[_LOG_DIRECTORY][e]
              /\ \A p \in Paths \ {_LOG_DIRECTORY} : disk'[p] = disk[p]
              /\ dirs' = dirs)]_vars

\* delete_old_logs(1) has removed one file and left the file whose
\* modification time is the cutoff itself.
C15_Witness ==
    /\ result = [kind |-> "delete_old_logs", days |-> 1, unlinked |-> {"f1"}]
    /\ disk[_LOG_DIRECTORY]["f2"] = RegularFile(now - TicksPerDay)
    /\ disk[_LOG_DIRECTORY]["node"].kind = "dir"

\* C18: on a logger with a console handler and the shared file handler, a
\* leveled call the logger is enabled for, whose write fails on one handler,
\* raises nothing and still delivers the record to every other handler that
\* takes its level.
C18_FailureStaysInItsSink ==
    [][\A n \in Names, l \in Levels, broken \in SUBSET SinkKinds :
          (/\ n \in _CONFIGURED_LOGGERS
           /\ FileIdsOf(loggerDict[n].handlers) # {}
           /\ isEnabledFor(loggerDict, n, l)
           /\ EmitFailing(n, l, broken))
          => (/\ ~result'.raised
              /\ \A s \in Dispatch(loggerDict, fileHandlers, n, l) :
                    s.kind \notin broken => s \in result'.sinks)]_vars

\* The write to the file failed and the console handler of the same logger
\* has put the record out.
C18_Witness ==
    /\ result.kind = "emit"
    /\ \E s \in result.errors : s.kind = "file"
    /\ \E s \in result.sinks : s.kind = "console"

\* C19: when color is not supported every exported color and style constant
\* is the empty string, and no formatter puts an escape sequence into a line:
\* what a line holds of them is in the message.
C19_NoAnsiWithoutColorSupport ==
    ~_COLOR_SUPPORTED
    => /\ \A c \in ColorNames : Palette(_COLOR_SUPPORTED)[c] = ""
       /\ result.kind = "format"
          => \A i \in 1..Len(result.line) :
                result.line[i].part = "format" => result.line[i].text \notin AnsiCodes

\* Without color support, a formatter asked for color and separator has
\* formatted a record that carries colorama's own RED.
C19_Witness ==
    /\ ~_COLOR_SUPPORTED
    /\ result.kind = "format"
    /\ result.enable_color
    /\ result.enable_separator
    /\ result.color = Ansi("RED")
    /\ Len(result.line) = 7

\* C20: whatever the threads do, one shared file handler at most is ever
\* constructed, one thread at most assigns the log directory, and every
\* logger with a file handler holds the one shared instance.
C20_OneThreadWins ==
    /\ Len(fileHandlers) <= 1
    /\ Cardinality({t \in Threads : threads[t].assigned}) <= 1
    /\ \A n \in Names :
          IsLogger(loggerDict, n)
          => FileIdsOf(loggerDict[n].handlers) \subseteq {_SHARED_FILE_HANDLER}

\* The console handlers among the handlers hs.
ConsoleCount(hs) == Cardinality({i \in 1..Len(hs) : hs[i].kind = "console"})

\* No thread is inside a call, and no thread has made more than one call.
OneCallEach == \A t \in Threads : threads[t].pc = "idle" /\ threads[t].calls <= 1

\* C21: when two threads have each made one configure_logger call for the
\* same name that was not configured before, the logger of that name has one
\* console handler and one attachment of a file handler at most.
C21_OneConsoleSink ==
    OneCallEach
    => \A n \in Names :
          IsLogger(loggerDict, n)
          => /\ ConsoleCount(loggerDict[n].handlers) <= 1
             /\ Cardinality(FileIdsOf(loggerDict[n].handlers)) <= 1

\* C25: once every configure_logger call has returned, the logger class
\* installed in logging is the class that was installed before the first call.
C25_LoggerClassRestored ==
    (\A t \in Threads : threads[t].pc = "idle") => loggerClass = "Logger"

\* The places of the log file where part p of record r stands.
PartsOf(r, p) == {i \in 1..Len(logFile) : logFile[i].rec = r /\ logFile[i].part = p}

\* C22: the text of every record written to the shared file handler stands
\* in the file in one piece, its head directly followed by its tail, with
\* no part of another record in between; once the threads have returned,
\* every record a thread handed to the handler is in the file, once and whole.
C22_RecordsWhole ==
    /\ \A i \in 1..Len(logFile) :
          /\ logFile[i].part = RecordParts[2]
             => i > 1 /\ logFile[i - 1].rec = logFile[i].rec
                      /\ logFile[i - 1].part = RecordParts[1]
          /\ logFile[i].part = RecordParts[1] /\ i < Len(logFile)
             => logFile[i + 1].rec = logFile[i].rec /\ logFile[i + 1].part = RecordParts[2]
    /\ (\A t \in Threads : threads[t].pc = "idle")
       => /\ \A t \in Threads : \A r \in threads[t].sent :
                /\ Cardinality(PartsOf(r, RecordParts[1])) = 1
                /\ Cardinality(PartsOf(r, RecordParts[2])) = 1
          /\ \A i \in 1..Len(logFile) : \E t \in Threads : logFile[i].rec \in threads[t].sent

\* Two threads are inside leveled methods of two different loggers that
\* share the file handler: one is half way through its write, the other
\* waits for the handler, and a whole record of the other logger is in the
\* file already.
C22_Witness ==
    \E t, u \in Threads :
        /\ t # u
        /\ threads[t].pc = "emit_tail"
        /\ threads[u].pc = "handle_acquire"
        /\ threads[t].arg # threads[u].arg
        /\ threads[t].handler = threads[u].handler
        /\ threads[t].handler = _SHARED_FILE_HANDLER
        /\ \E i \in 1..Len(logFile) :
              logFile[i].logger = threads[u].arg /\ logFile[i].part = RecordParts[2]

DirectCaller(stack) ==
    CHOOSE i \in 1..Len(stack) :
        /\ stack[i].file = "app"
        /\ \A j \in (i + 1)..Len(stack) : stack[j].file # "app"

\* C24: the record of a leveled call whose level is enabled is attributed
\* to the application frame that called the leveled method: not to the
\* wrapper, not to _log, not to a frame of logging, not to a frame further out.
C24_CallSiteIsDirectCaller ==
    result.kind = "record"
    => /\ result.caller = DirectCaller(result.stack)
       /\ result.stack[result.caller].file = "app"

\* A record was made for a call from the innermost of MaxDepth application
\* frames, and it names that frame.
C24_Witness ==
    /\ result.kind = "record"
    /\ result.caller = MaxDepth
    /\ result.stack[result.caller].file = "app"
    /\ result.stack[MaxDepth + 1].file = "fxlogger"

\* The handlers a record of level l emitted on logger b is put out by.
Outputs(d, fhs, b, l) ==
    IF isEnabledFor(d, b, l) THEN Dispatch(d, fhs, b, l) ELSE {}

\* The names above n in the dotted hierarchy.
RECURSIVE Ancestors(_)
Ancestors(n) ==
    IF ParentName(n) = "root" THEN {}
    ELSE {ParentName(n)} \cup Ancestors(ParentName(n))

\* The call is logger a's setLevel.
SetsLevelOf(a) == \E l \in SetLevels : setLevel(a, l)

\* The call is the configure_logger that builds the logger a.
Creates(a) ==
    /\ a \notin _CONFIGURED_LOGGERS
    /\ \E fmt \in Formats, f \in BOOLEAN : configure_logger(a, fmt[1], fmt[2], f)

\* Logger b is configured, and the call leaves what it puts out as it was.
OutputsKept(b) ==
    \A l \in Levels :
        Outputs(loggerDict', fileHandlers', b, l) = Outputs(loggerDict, fileHandlers, b, l)

\* C26 as the specification has it: setLevel on logger a, and the
\* configure_logger call that builds a, leave what every other configured
\* logger b puts out as it was, a parent and its child included.
C26_LevelsIndependent ==
    [][\A a \in Names : \A b \in _CONFIGURED_LOGGERS \ {a} :
          (SetsLevelOf(a) \/ Creates(a)) => OutputsKept(b)]_vars

\* C26: the configure_logger call that builds logger a leaves what every
\* other configured logger b puts out as it was; so does setLevel on a,
\* unless a is above b in the dotted hierarchy and b has no level of its own.
C26_LevelsIndependentUnlessInherited ==
    [][\A a \in Names : \A b \in _CONFIGURED_LOGGERS \ {a} :
          /\ Creates(a) => OutputsKept(b)
          /\ (SetsLevelOf(a) /\ (a \notin Ancestors(b) \/ loggerDict[b].level # NOTSET))
             => OutputsKept(b)]_vars

\* The parent's level has just been set to DEBUG while its child, with the
\* shared file handler like the parent, keeps a level of its own: the child
\* still drops what is below its own level.
C26_Witness ==
    /\ result = NoResult
    /\ _CONFIGURED_LOGGERS = Names
    /\ \A n \in Names : IsFXColorLogger(loggerDict, n)
                        /\ _SHARED_FILE_HANDLER \in FileIdsOf(loggerDict[n].handlers)
    /\ loggerDict["a"].level = DEBUG
    /\ loggerDict["a.b"].level = ERROR
    /\ Outputs(loggerDict, fileHandlers, "a.b", INFO) = {}
    /\ Outputs(loggerDict, fileHandlers, "a", INFO) # {}

====
